---- MODULE Spec2Model ----
(***************************************************************************)
(* State machine of the adsr~ envelope generator (src/unnamed/part_001).   *)
(*                                                                         *)
(* A double is modelled as an exact rational <<n, d>> in lowest terms with *)
(* d > 0, or as one of the three non-finite IEEE values: NaN = <<0, 0>>,   *)
(* +Inf = <<1, 0>>, -Inf = <<-1, 0>>.  Rounding of finite results and the  *)
(* sign of zero are not modelled.                                          *)
(***************************************************************************)
EXTENDS Integers, Sequences, FiniteSets, TLC

(* ---------------------------------------------------------------------- *)
(* Bounds of the model                                                     *)
(* ---------------------------------------------------------------------- *)

\* a time setter or adsr_dsp is explored only when the sample count it
\* derives is at most this (Spec only)
MaxPhaseSamples == 3

\* number of setter / adsr_dsp calls in one behaviour
MaxSetterCalls == 2

\* number of start / stop messages in one behaviour
MaxTriggers == 3

\* resolution of an irrational std::pow result: rounded down to 1/PowGrid
PowGrid == 8

(* ---------------------------------------------------------------------- *)
(* double arithmetic                                                       *)
(* ---------------------------------------------------------------------- *)

Abs(n) == IF n < 0 THEN -n ELSE n

Sign(n) == IF n < 0 THEN -1 ELSE IF n > 0 THEN 1 ELSE 0

RECURSIVE GCD(_, _)
GCD(a, b) == IF b = 0 THEN a ELSE GCD(b, a % b)

Norm(x) ==
    IF x[2] = 0 THEN <<Sign(x[1]), 0>>
    ELSE LET g == GCD(Abs(x[1]), Abs(x[2]))
             s == IF x[2] < 0 THEN -1 ELSE 1
         IN  <<(s * x[1]) \div g, (s * x[2]) \div g>>

R(n, d) == Norm(<<n, d>>)

NaN == <<0, 0>>
PosInf == <<1, 0>>
NegInf == <<-1, 0>>
Zero == <<0, 1>>
One == <<1, 1>>

IsNaN(x) == x = NaN
IsInf(x) == x[2] = 0 /\ x[1] # 0
IsFinite(x) == x[2] # 0

Neg(x) == <<-x[1], x[2]>>

Add(x, y) ==
    CASE IsNaN(x) \/ IsNaN(y) -> NaN
      [] IsInf(x) /\ IsInf(y) -> IF x = y THEN x ELSE NaN
      [] IsInf(x) -> x
      [] IsInf(y) -> y
      [] OTHER -> Norm(<<x[1] * y[2] + y[1] * x[2], x[2] * y[2]>>)

Sub(x, y) == Add(x, Neg(y))

\* 0 * Inf and NaN * x come out as <<0, 0>>, Inf * x as <<+-1, 0>>
Mul(x, y) == Norm(<<x[1] * y[1], x[2] * y[2]>>)

\* static_cast<double>(a) / b for two ints: a/0 is +-Inf, 0/0 is NaN
IntDiv(a, b) == Norm(<<a, b>>)

\* x < y; false when either side is NaN
Lt(x, y) ==
    /\ ~IsNaN(x)
    /\ ~IsNaN(y)
    /\ CASE IsInf(x) /\ IsInf(y) -> x[1] < y[1]
         [] IsInf(x) -> x[1] < 0
         [] IsInf(y) -> y[1] > 0
         [] OTHER -> x[1] * y[2] < y[1] * x[2]

\* x <= y; false when either side is NaN
Le(x, y) == Lt(x, y) \/ (~IsNaN(x) /\ x = y)

\* clamp with the lower bound forgotten
clamp_NoLower(v, lo, hi) == IF Lt(hi, v) THEN hi ELSE v

\* std::clamp(v, lo, hi) == (v < lo) ? lo : (hi < v) ? hi : v
clamp(v, lo, hi) == IF Lt(v, lo) THEN lo ELSE IF Lt(hi, v) THEN hi ELSE v

\* std::max(a, b) on ints == (a < b) ? b : a
max(a, b) == IF a < b THEN b ELSE a

\* static_cast<int>(x) of a finite double: truncation toward zero
toInt(x) == IF x[1] >= 0 THEN x[1] \div x[2] ELSE -((-x[1]) \div x[2])

\* largest r with r^b <= v, for v >= 0 and b >= 1
IRoot(v, b) == CHOOSE r \in 0..v : r^b <= v /\ (r + 1)^b > v

\* (n/d)^(a/b) for n/d >= 0 and b > 1: exact when the result is rational,
\* otherwise rounded down to a multiple of 1/PowGrid.  The render path of
\* Spec meets it with b = 2 only (the exponent 1/2 of the shape inputs).
Root(p, a, b) ==
    LET na == p[1]^a
        da == p[2]^a
        rn == IRoot(na, b)
        rd == IRoot(da, b)
    IN  IF rn^b = na /\ rd^b = da THEN Norm(<<rn, rd>>)
        ELSE Norm(<<IRoot((na * PowGrid^b) \div da, b), PowGrid>>)

\* std::pow(p, shape) for a finite exponent shape = a/b > 0
pow(p, shape) ==
    LET a == shape[1]
        b == shape[2]
    IN  CASE IsNaN(p) -> NaN
          [] p = PosInf -> PosInf
          [] p = NegInf -> IF b = 1 /\ a % 2 = 1 THEN NegInf ELSE PosInf
          [] b = 1 -> <<p[1]^a, p[2]^a>>
          [] p[1] < 0 -> NaN
          [] OTHER -> Root(p, a, b)

(* ---------------------------------------------------------------------- *)
(* t_adsr_tilde                                                            *)
(* ---------------------------------------------------------------------- *)

VARIABLES
    phase, phaseFunc,
    samplerate, sampleratems,
    attackTime, decayTime, sustainLevel, releaseTime,
    attackShape, releaseShape,
    currentEnv, phaseStartEnv,
    startAtCurrentEnv,
    attackPhaseSamples, decayPhaseSamples, releasePhaseSamples,
    startupPhaseSamples,
    currentSample,
    gain,
    out,        \* the sample adsr_perform wrote last
    lastOp,     \* the operation that ran last
    lastArg,    \* its float argument (Zero when it has none)
    prevPhase,  \* phase before the last operation
    prevEnv,    \* currentEnv before the last operation
    run,        \* <<kind, n>>: n samples rendered since an undisturbed trigger
    nSet,       \* setter and dsp calls so far
    nTrig       \* start and stop messages so far

store == <<samplerate, sampleratems, attackTime, decayTime, sustainLevel,
           releaseTime, attackShape, releaseShape, startAtCurrentEnv,
           attackPhaseSamples, decayPhaseSamples, releasePhaseSamples,
           startupPhaseSamples, gain>>

engine == <<phase, phaseFunc, currentEnv, phaseStartEnv, currentSample>>

history == <<lastOp, lastArg, prevPhase, prevEnv, run, nSet, nTrig>>

vars == <<store, engine, out, history>>

\* const int startupTime = 3
startupTime == 3

(* ---------------------------------------------------------------------- *)
(* Shaping and the per-sample phase functions                              *)
(* ---------------------------------------------------------------------- *)

power_lerp(start, end, p, shape) ==
    IF shape = One
    THEN Add(start, Mul(Sub(end, start), p))
    ELSE LET curved == IF Lt(end, start)
                       THEN Sub(One, pow(Sub(One, p), shape))
                       ELSE pow(p, shape)
         IN  Add(start, Mul(Sub(end, start), curved))

PhaseFuncOf(newPhase) ==
    CASE newPhase = "Startup" -> "startupPhase"
      [] newPhase = "Attack" -> "attackPhase"
      [] newPhase = "Decay" -> "decayPhase"
      [] newPhase = "Sustain" -> "sustainPhase"
      [] newPhase = "Release" -> "releasePhase"
      [] newPhase = "Idle" -> "idlePhase"
      [] OTHER -> "idlePhase"

enter_phase(newPhase) ==
    /\ phase' = newPhase
    /\ phaseFunc' = PhaseFuncOf(newPhase)
    /\ currentSample' = 0

\* ++x->currentSample without a phase change
Advance ==
    /\ currentSample' = currentSample + 1
    /\ UNCHANGED <<phase, phaseFunc>>

\* startupPhase that hands the captured start value on to Attack
startupPhase_KeepStart ==
    LET p == IntDiv(currentSample, startupPhaseSamples)
    IN  /\ currentEnv' = power_lerp(phaseStartEnv, Zero, p, One)
        /\ IF currentSample + 1 >= startupPhaseSamples
           THEN /\ UNCHANGED phaseStartEnv
                /\ enter_phase("Attack")
           ELSE /\ Advance
                /\ UNCHANGED phaseStartEnv

startupPhase ==
    LET p == IntDiv(currentSample, startupPhaseSamples)
    IN  /\ currentEnv' = power_lerp(phaseStartEnv, Zero, p, One)
        /\ IF currentSample + 1 >= startupPhaseSamples
           THEN /\ phaseStartEnv' = Zero
                /\ enter_phase("Attack")
           ELSE /\ Advance
                /\ UNCHANGED phaseStartEnv

\* attackPhase with the divisor of releasePhase (the end point is reached
\* inside the phase)
attackPhase_EndPoint ==
    LET p == IntDiv(currentSample, attackPhaseSamples - 1)
    IN  /\ currentEnv' = power_lerp(phaseStartEnv, One, p, attackShape)
        /\ IF currentSample + 1 >= attackPhaseSamples
           THEN enter_phase("Decay")
           ELSE Advance
        /\ UNCHANGED phaseStartEnv

attackPhase ==
    LET p == IntDiv(currentSample, attackPhaseSamples)
    IN  /\ currentEnv' = power_lerp(phaseStartEnv, One, p, attackShape)
        /\ IF currentSample + 1 >= attackPhaseSamples
           THEN enter_phase("Decay")
           ELSE Advance
        /\ UNCHANGED phaseStartEnv

decayPhase ==
    LET p == IntDiv(currentSample, decayPhaseSamples)
    IN  /\ currentEnv' = Add(Mul(Sub(One, p), Sub(One, sustainLevel)),
                             sustainLevel)
        /\ IF currentSample + 1 >= decayPhaseSamples
           THEN enter_phase("Sustain")
           ELSE Advance
        /\ UNCHANGED phaseStartEnv

\* sustainPhase that holds whatever value Decay ended on
sustainPhase_Frozen ==
    /\ UNCHANGED currentEnv
    /\ UNCHANGED <<phase, phaseFunc, currentSample, phaseStartEnv>>

sustainPhase ==
    /\ currentEnv' = sustainLevel
    /\ UNCHANGED <<phase, phaseFunc, currentSample, phaseStartEnv>>

\* releasePhase that starts over when its budget is used up
releasePhase_Loop ==
    LET p == IntDiv(currentSample, releasePhaseSamples - 1)
    IN  /\ currentEnv' = power_lerp(phaseStartEnv, Zero, p, releaseShape)
        /\ IF currentSample + 1 >= releasePhaseSamples
           THEN enter_phase("Release")
           ELSE Advance
        /\ UNCHANGED phaseStartEnv

releasePhase ==
    LET p == IntDiv(currentSample, releasePhaseSamples - 1)
    IN  /\ currentEnv' = power_lerp(phaseStartEnv, Zero, p, releaseShape)
        /\ IF currentSample + 1 >= releasePhaseSamples
           THEN enter_phase("Idle")
           ELSE Advance
        /\ UNCHANGED phaseStartEnv

\* idlePhase that leaves the envelope where the last phase put it
idlePhase_Hold ==
    /\ UNCHANGED currentEnv
    /\ UNCHANGED <<phase, phaseFunc, currentSample, phaseStartEnv>>

idlePhase ==
    /\ currentEnv' = Zero
    /\ UNCHANGED <<phase, phaseFunc, currentSample, phaseStartEnv>>

(* ---------------------------------------------------------------------- *)
(* History bookkeeping (not program state)                                 *)
(* ---------------------------------------------------------------------- *)

Note(op, arg) ==
    /\ lastOp' = op
    /\ lastArg' = arg
    /\ prevPhase' = phase
    /\ prevEnv' = currentEnv

NoRun == <<"none", 0>>

CountSetter ==
    /\ nSet < MaxSetterCalls
    /\ nSet' = nSet + 1
    /\ run' = NoRun
    /\ UNCHANGED nTrig

CountTrigger ==
    /\ nTrig < MaxTriggers
    /\ nTrig' = nTrig + 1
    /\ UNCHANGED nSet

(* ---------------------------------------------------------------------- *)
(* Signal processing: one iteration of the loop of adsr_perform            *)
(* ---------------------------------------------------------------------- *)

adsr_perform ==
    /\ CASE phaseFunc = "startupPhase" -> startupPhase
         [] phaseFunc = "attackPhase" -> attackPhase
         [] phaseFunc = "decayPhase" -> decayPhase
         [] phaseFunc = "sustainPhase" -> sustainPhase
         [] phaseFunc = "releasePhase" -> releasePhase
         [] phaseFunc = "idlePhase" -> idlePhase
    /\ out' = Mul(currentEnv', gain)
    /\ Note("perform", Zero)
    /\ run' = IF \/ run[1] = "attack" /\ phase = "Attack"
                 \/ run[1] = "release" /\ phase = "Release"
              THEN <<run[1], run[2] + 1>>
              ELSE NoRun
    /\ UNCHANGED <<store, nSet, nTrig>>

(* ---------------------------------------------------------------------- *)
(* Trigger methods                                                         *)
(* ---------------------------------------------------------------------- *)

\* the first version's start (src/src/adsr~.cpp): the envelope is zeroed
\* and Attack entered whatever the mode
adsr_trigger_start_v1 ==
    /\ CountTrigger
    /\ currentEnv' = Zero
    /\ enter_phase("Attack")
    /\ Note("start", Zero)
    /\ run' = NoRun
    /\ UNCHANGED <<store, phaseStartEnv, out>>

adsr_trigger_start ==
    /\ CountTrigger
    /\ IF ~startAtCurrentEnv
       THEN /\ phaseStartEnv' = currentEnv
            /\ enter_phase("Startup")
       ELSE /\ phaseStartEnv' = currentEnv
            /\ enter_phase("Attack")
    /\ Note("start", Zero)
    /\ run' = IF startAtCurrentEnv /\ phase = "Idle" /\ currentEnv = Zero
              THEN <<"attack", 0>>
              ELSE NoRun
    /\ UNCHANGED <<store, currentEnv, out>>

\* the first version's stop (src/src/adsr~.cpp): only Idle is excluded
adsr_trigger_stop_v1 ==
    /\ CountTrigger
    /\ IF phase # "Idle"
       THEN /\ phaseStartEnv' = currentEnv
            /\ enter_phase("Release")
       ELSE UNCHANGED <<phaseStartEnv, phase, phaseFunc, currentSample>>
    /\ Note("stop", Zero)
    /\ run' = NoRun
    /\ UNCHANGED <<store, currentEnv, out>>

adsr_trigger_stop ==
    /\ CountTrigger
    /\ IF phase # "Idle" /\ phase # "Release"
       THEN /\ phaseStartEnv' = currentEnv
            /\ enter_phase("Release")
       ELSE UNCHANGED <<phaseStartEnv, phase, phaseFunc, currentSample>>
    /\ Note("stop", Zero)
    /\ run' = IF phase = "Sustain" /\ releaseShape = One
              THEN <<"release", 0>>
              ELSE NoRun
    /\ UNCHANGED <<store, currentEnv, out>>

(* ---------------------------------------------------------------------- *)
(* Parameter setters with clamping                                         *)
(* ---------------------------------------------------------------------- *)

TenThousand == R(10000, 1)

adsr_attack(f) ==
    /\ CountSetter
    /\ attackTime' = clamp(f, Zero, TenThousand)
    /\ attackPhaseSamples' = max(1, toInt(Mul(attackTime', sampleratems)))
    /\ Note("attack", f)
    /\ UNCHANGED <<samplerate, sampleratems, decayTime, sustainLevel,
                   releaseTime, attackShape, releaseShape, startAtCurrentEnv,
                   decayPhaseSamples, releasePhaseSamples,
                   startupPhaseSamples, gain, engine, out>>

adsr_decay(f) ==
    /\ CountSetter
    /\ decayTime' = clamp(f, Zero, TenThousand)
    /\ decayPhaseSamples' = max(1, toInt(Mul(decayTime', sampleratems)))
    /\ Note("decay", f)
    /\ UNCHANGED <<samplerate, sampleratems, attackTime, sustainLevel,
                   releaseTime, attackShape, releaseShape, startAtCurrentEnv,
                   attackPhaseSamples, releasePhaseSamples,
                   startupPhaseSamples, gain, engine, out>>

\* the first version's release setter (src/src/adsr~.cpp): the startup time
\* is not taken off
adsr_release_v1(f) ==
    /\ CountSetter
    /\ releaseTime' = clamp(f, Zero, TenThousand)
    /\ releasePhaseSamples' =
           max(1, toInt(Mul(Mul(releaseTime', R(1, 1000)), samplerate)))
    /\ Note("release", f)
    /\ UNCHANGED <<samplerate, sampleratems, attackTime, decayTime,
                   sustainLevel, attackShape, releaseShape,
                   startAtCurrentEnv, attackPhaseSamples,
                   decayPhaseSamples, startupPhaseSamples, gain,
                   engine, out>>

adsr_release(f) ==
    LET t == IF ~startAtCurrentEnv THEN R(startupTime, 1) ELSE Zero
    IN  /\ CountSetter
        /\ releaseTime' = clamp(Sub(f, t), Zero, TenThousand)
        /\ releasePhaseSamples' =
               max(1, toInt(Mul(releaseTime', sampleratems)))
        /\ Note("release", f)
        /\ UNCHANGED <<samplerate, sampleratems, attackTime, decayTime,
                       sustainLevel, attackShape, releaseShape,
                       startAtCurrentEnv, attackPhaseSamples,
                       decayPhaseSamples, startupPhaseSamples, gain,
                       engine, out>>

\* adsr_sustain that also moves a held envelope to the new level at once
adsr_sustain_Immediate(f) ==
    /\ CountSetter
    /\ sustainLevel' = clamp(f, Zero, One)
    /\ currentEnv' = IF phase = "Sustain" THEN sustainLevel' ELSE currentEnv
    /\ Note("sustain", f)
    /\ UNCHANGED <<samplerate, sampleratems, attackTime, decayTime,
                   releaseTime, attackShape, releaseShape, startAtCurrentEnv,
                   attackPhaseSamples, decayPhaseSamples,
                   releasePhaseSamples, startupPhaseSamples, gain,
                   phase, phaseFunc, phaseStartEnv, currentSample, out>>

adsr_sustain(f) ==
    /\ CountSetter
    /\ sustainLevel' = clamp(f, Zero, One)
    /\ Note("sustain", f)
    /\ UNCHANGED <<samplerate, sampleratems, attackTime, decayTime,
                   releaseTime, attackShape, releaseShape, startAtCurrentEnv,
                   attackPhaseSamples, decayPhaseSamples,
                   releasePhaseSamples, startupPhaseSamples, gain,
                   engine, out>>

map_shape_to_exponent(f) ==
    LET shape == clamp(f, R(-1, 1), One)
    IN  IF Lt(shape, Zero)
        THEN Add(One, Mul(shape, R(9, 10)))
        ELSE Add(One, Mul(shape, R(9, 1)))

adsr_attackshape(f) ==
    /\ CountSetter
    /\ attackShape' = map_shape_to_exponent(f)
    /\ Note("attackshape", f)
    /\ UNCHANGED <<samplerate, sampleratems, attackTime, decayTime,
                   sustainLevel, releaseTime, releaseShape,
                   startAtCurrentEnv, attackPhaseSamples, decayPhaseSamples,
                   releasePhaseSamples, startupPhaseSamples, gain,
                   engine, out>>

adsr_releaseshape(f) ==
    /\ CountSetter
    /\ releaseShape' = map_shape_to_exponent(f)
    /\ Note("releaseshape", f)
    /\ UNCHANGED <<samplerate, sampleratems, attackTime, decayTime,
                   sustainLevel, releaseTime, attackShape,
                   startAtCurrentEnv, attackPhaseSamples, decayPhaseSamples,
                   releasePhaseSamples, startupPhaseSamples, gain,
                   engine, out>>

adsr_g(f) ==
    /\ CountSetter
    /\ gain' = clamp(f, Zero, One)
    /\ Note("g", f)
    /\ UNCHANGED <<samplerate, sampleratems, attackTime, decayTime,
                   sustainLevel, releaseTime, attackShape, releaseShape,
                   startAtCurrentEnv, attackPhaseSamples, decayPhaseSamples,
                   releasePhaseSamples, startupPhaseSamples, engine, out>>

\* sr is sp[0]->s_sr, the host's sample rate
adsr_dsp(sr) ==
    /\ CountSetter
    /\ samplerate' = sr
    /\ sampleratems' = Mul(samplerate', R(1, 1000))
    /\ startupPhaseSamples' =
           max(1, toInt(Mul(R(startupTime, 1), sampleratems')))
    /\ Note("dsp", sr)
    /\ UNCHANGED <<attackTime, decayTime, sustainLevel, releaseTime,
                   attackShape, releaseShape, startAtCurrentEnv,
                   attackPhaseSamples, decayPhaseSamples,
                   releasePhaseSamples, gain, engine, out>>

(* ---------------------------------------------------------------------- *)
(* Object constructor                                                      *)
(* ---------------------------------------------------------------------- *)

\* the first version's constructor defaults (src/src/adsr~.cpp): linear
\* attack
adsr_new_v1(f) ==
    /\ startAtCurrentEnv = (f = One)
    /\ samplerate = R(44100, 1)
    /\ sampleratems = R(441, 10)
    /\ attackTime = R(1, 100)
    /\ decayTime = R(1, 10)
    /\ sustainLevel = R(7, 10)
    /\ releaseTime = R(2, 10)
    /\ attackShape = One
    /\ releaseShape = One
    /\ currentEnv = Zero
    /\ gain = One
    /\ phaseFunc = "idlePhase"
    /\ phase = "Idle"
    /\ attackPhaseSamples = 0
    /\ decayPhaseSamples = 0
    /\ releasePhaseSamples = 0
    /\ startupPhaseSamples = 0
    /\ phaseStartEnv = Zero
    /\ currentSample = 0

\* adsr_new(f): pd_new hands out zero-filled memory (Pd's getbytes), so the
\* fields adsr_new does not assign (the four sample counts, phaseStartEnv,
\* currentSample) are zero
adsr_new(f) ==
    /\ startAtCurrentEnv = (f = One)
    /\ samplerate = R(44100, 1)
    /\ sampleratems = R(441, 10)
    /\ attackTime = R(1, 100)
    /\ decayTime = R(1, 10)
    /\ sustainLevel = R(7, 10)
    /\ releaseTime = R(2, 10)
    /\ attackShape = R(2, 1)
    /\ releaseShape = One
    /\ currentEnv = Zero
    /\ gain = One
    /\ phaseFunc = "idlePhase"
    /\ phase = "Idle"
    /\ attackPhaseSamples = 0
    /\ decayPhaseSamples = 0
    /\ releasePhaseSamples = 0
    /\ startupPhaseSamples = 0
    /\ phaseStartEnv = Zero
    /\ currentSample = 0

(* ---------------------------------------------------------------------- *)
(* Inputs                                                                  *)
(* ---------------------------------------------------------------------- *)

\* creation argument of [adsr~ f]
CtorArgs == {Zero, One}

\* milliseconds: below the range, 3 samples at the default 44.1 kHz, and
\* 3 samples at 1 kHz (1.5, truncated to 1, at 500 Hz)
TimeInputs == {R(-1, 1), R(7, 100), R(3, 1)}

\* the same for release, where startupTime may be subtracted first
ReleaseInputs == {R(-1, 1), R(7, 100), R(6, 1)}

\* host sample rates in Hz
SampleRates == {R(500, 1), R(1000, 1)}

SustainInputs == {R(-1, 2), R(1, 2)}

GainInputs == {R(1, 2)}

\* shape inputs: exponents 1/2 and 1 for attack (2 is the default),
\* 1/2 and 2 for release (1 is the default)
AttackShapeInputs == {R(-5, 9), Zero}

ReleaseShapeInputs == {R(-5, 9), R(1, 9)}

\* inputs of the parameter store alone, across and beyond every range
WideTimeInputs == {R(-5, 1), R(1, 20), R(3, 2), R(10000, 1), R(20000, 1)}

WideSampleRates == {One, R(500, 1), R(48000, 1)}

WideLevelInputs == {R(-1, 2), Zero, R(1, 2), One, R(3, 2)}

WideShapeInputs == {R(-2, 1), R(-1, 1), R(-1, 2), Zero, R(1, 2), One, R(2, 1)}

(* ---------------------------------------------------------------------- *)
(* The envelope: messages between any two samples                          *)
(* ---------------------------------------------------------------------- *)

Init ==
    /\ \E f \in CtorArgs : adsr_new(f)
    /\ out = Zero
    /\ lastOp = "new"
    /\ lastArg = Zero
    /\ prevPhase = "Idle"
    /\ prevEnv = Zero
    /\ run = NoRun
    /\ nSet = 0
    /\ nTrig = 0

MsgAttack ==
    \E f \in TimeInputs :
        adsr_attack(f) /\ attackPhaseSamples' <= MaxPhaseSamples

MsgDecay ==
    \E f \in TimeInputs :
        adsr_decay(f) /\ decayPhaseSamples' <= MaxPhaseSamples

MsgRelease ==
    \E f \in ReleaseInputs :
        adsr_release(f) /\ releasePhaseSamples' <= MaxPhaseSamples

MsgSustain == \E f \in SustainInputs : adsr_sustain(f)

MsgAttackShape == \E f \in AttackShapeInputs : adsr_attackshape(f)

MsgReleaseShape == \E f \in ReleaseShapeInputs : adsr_releaseshape(f)

MsgG == \E f \in GainInputs : adsr_g(f)

MsgDsp ==
    \E sr \in SampleRates :
        adsr_dsp(sr) /\ startupPhaseSamples' <= MaxPhaseSamples

MsgStart == adsr_trigger_start

MsgStop == adsr_trigger_stop

Perform == adsr_perform

Next ==
    \/ MsgAttack
    \/ MsgDecay
    \/ MsgRelease
    \/ MsgSustain
    \/ MsgAttackShape
    \/ MsgReleaseShape
    \/ MsgG
    \/ MsgDsp
    \/ MsgStart
    \/ MsgStop
    \/ Perform

Spec == Init /\ [][Next]_vars

(* ---------------------------------------------------------------------- *)
(* The machine with render steps taken fairly                              *)
(* ---------------------------------------------------------------------- *)

\* the phases that count samples against a budget
TimedPhases == {"Startup", "Attack", "Decay", "Release"}

\* the sample count that ends the given timed phase
BudgetOf(ph) ==
    CASE ph = "Startup" -> startupPhaseSamples
      [] ph = "Attack" -> attackPhaseSamples
      [] ph = "Decay" -> decayPhaseSamples
      [] ph = "Release" -> releasePhaseSamples
      [] OTHER -> 0

\* the phase a timed phase hands over to when its budget is used up
NextPhaseOf(ph) ==
    CASE ph = "Startup" -> "Attack"
      [] ph = "Attack" -> "Decay"
      [] ph = "Decay" -> "Sustain"
      [] ph = "Release" -> "Idle"
      [] OTHER -> ph

\* What a render step does to the sample counter of a timed phase: the
\* ++currentSample >= budget test of startupPhase, attackPhase, decayPhase
\* and releasePhase without the envelope value.  Every Perform step taken in
\* a timed phase is such a step, and it always changes <<phase,
\* currentSample>>.
RenderTick ==
    /\ phase \in TimedPhases
    /\ lastOp' = "perform"
    /\ IF currentSample + 1 >= BudgetOf(phase)
       THEN phase' = NextPhaseOf(phase) /\ currentSample' = 0
       ELSE phase' = phase /\ currentSample' = currentSample + 1

\* the messages that reach a budget, the sample counter or the phase, and
\* the render step (sustain, attackshape, releaseshape and g touch none of
\* them)
LiveNext ==
    \/ MsgAttack
    \/ MsgDecay
    \/ MsgRelease
    \/ MsgDsp
    \/ MsgStart
    \/ MsgStop
    \/ Perform

\* Pd runs the signal chain block after block for as long as DSP is on, so
\* a timed phase that is waiting for samples gets them; the message budgets
\* of CountSetter and CountTrigger make the control events finitely many.
\* The fairness is stated on the counter part of the render step, which is
\* what WF_vars(Perform) requires of a timed phase.
FairSpec ==
    Init /\ [][LiveNext]_vars /\ WF_<<phase, currentSample>>(RenderTick)

(* ---------------------------------------------------------------------- *)
(* The parameter store alone, over wide inputs                             *)
(* ---------------------------------------------------------------------- *)

StoreAttack == \E f \in WideTimeInputs : adsr_attack(f)

StoreDecay == \E f \in WideTimeInputs : adsr_decay(f)

StoreRelease == \E f \in WideTimeInputs : adsr_release(f)

StoreSustain == \E f \in WideLevelInputs : adsr_sustain(f)

StoreAttackShape == \E f \in WideShapeInputs : adsr_attackshape(f)

StoreReleaseShape == \E f \in WideShapeInputs : adsr_releaseshape(f)

StoreG == \E f \in WideLevelInputs : adsr_g(f)

StoreDsp == \E sr \in WideSampleRates : adsr_dsp(sr)

StoreNext ==
    \/ StoreAttack
    \/ StoreDecay
    \/ StoreRelease
    \/ StoreSustain
    \/ StoreAttackShape
    \/ StoreReleaseShape
    \/ StoreG
    \/ StoreDsp

StoreSpec == Init /\ [][StoreNext]_vars

(* ---------------------------------------------------------------------- *)
(* Claims                                                                  *)
(* ---------------------------------------------------------------------- *)

InUnit(x) == Le(Zero, x) /\ Le(x, One)

\* round(x) of a finite x >= 0
Round(x) == (2 * x[1] + x[2]) \div (2 * x[2])

\* the documented derivation: max(1, round(timeMs * sampleRate / 1000))
DerivedCount(timeMs) ==
    max(1, Round(Mul(Mul(timeMs, samplerate), R(1, 1000))))

\* C1: no per-sample evaluation divides by zero or leaves a NaN or infinite
\* currentEnv: the divisor the bound phase function will use is non-zero
\* and currentEnv is finite.
C1_NoDivisionByZero ==
    /\ IsFinite(currentEnv)
    /\ phaseFunc = "startupPhase" => startupPhaseSamples # 0
    /\ phaseFunc = "attackPhase" => attackPhaseSamples # 0
    /\ phaseFunc = "decayPhase" => decayPhaseSamples # 0
    /\ phaseFunc = "releasePhase" => releasePhaseSamples - 1 # 0

\* C2: currentEnv lies in [0,1] after every render step.  (Stated for the
\* finite values; the non-finite ones are C1's.)
C2_EnvInUnitRange ==
    (lastOp = "perform" /\ IsFinite(currentEnv)) => InUnit(currentEnv)

\* C3: every phase sample budget is >= 1 in every reachable state, the
\* state right after construction included.
C3_BudgetsAtLeastOne ==
    /\ attackPhaseSamples >= 1
    /\ decayPhaseSamples >= 1
    /\ releasePhaseSamples >= 1
    /\ startupPhaseSamples >= 1

\* C4: a stop message in Idle or Release changes nothing of the object; in
\* every other phase it captures phaseStartEnv = currentEnv and enters
\* Release at sample 0, leaving currentEnv and the parameters alone.
C4_StopSemantics ==
    [][lastOp' = "stop" =>
          IF phase \in {"Idle", "Release"}
          THEN UNCHANGED <<store, engine, out>>
          ELSE /\ phaseStartEnv' = currentEnv
               /\ phase' = "Release"
               /\ phaseFunc' = "releasePhase"
               /\ currentSample' = 0
               /\ UNCHANGED <<store, currentEnv, out>>]_vars

\* a second stop has arrived while Release was running, past its first
\* sample
C4_StopWhileReleasing ==
    /\ lastOp = "stop"
    /\ prevPhase = "Release"
    /\ phase = "Release"
    /\ currentSample > 0

\* C5: a start message takes effect in every phase: it captures
\* phaseStartEnv = currentEnv, resets the sample index, leaves currentEnv
\* alone, and enters Startup in start-from-silence mode, Attack otherwise.
C5_StartSemantics ==
    [][lastOp' = "start" =>
          /\ phaseStartEnv' = currentEnv
          /\ currentSample' = 0
          /\ currentEnv' = currentEnv
          /\ phase' = IF ~startAtCurrentEnv THEN "Startup" ELSE "Attack"
          /\ phaseFunc' = IF ~startAtCurrentEnv
                          THEN "startupPhase" ELSE "attackPhase"]_vars

\* a start has interrupted a running Release at a non-zero level in
\* start-from-silence mode
C5_RetriggerFromRelease ==
    /\ lastOp = "start"
    /\ ~startAtCurrentEnv
    /\ prevPhase = "Release"
    /\ phase = "Startup"
    /\ Lt(Zero, currentEnv)
    /\ phaseStartEnv = currentEnv

C7_LinearReleaseReachesZero ==
    (/\ run[1] = "release"
     /\ run[2] >= 1
     /\ releasePhaseSamples >= 1
     /\ phaseStartEnv = sustainLevel) =>
        /\ Le(currentEnv, prevEnv)
        /\ phase = "Idle" <=> run[2] = releasePhaseSamples
        /\ phase = "Idle" => currentEnv = Zero

\* C8: after adsr_dsp every derived sample count equals
\* max(1, round(timeMs * sampleRate / 1000)) for the stored time and the new
\* sample rate.  (Stated for the counts a time setter has derived before,
\* which are >= 1.)
C8_CountsFollowRate ==
    /\ (lastOp = "dsp" /\ attackPhaseSamples >= 1)
           => attackPhaseSamples = DerivedCount(attackTime)
    /\ (lastOp = "dsp" /\ decayPhaseSamples >= 1)
           => decayPhaseSamples = DerivedCount(decayTime)
    /\ (lastOp = "dsp" /\ releasePhaseSamples >= 1)
           => releasePhaseSamples = DerivedCount(releaseTime)

InRange(x, lo, hi) == Le(lo, x) /\ Le(x, hi)

\* C9: every stored parameter is inside its documented range: times in
\* [0, 10000], sustainLevel and gain in [0, 1], shape exponents in
\* [0.1, 10], and an exponent just set is in [0.1, 1] for a negative shape
\* input and in [1, 10] for a non-negative one.
C9_StoredInRange ==
    /\ InRange(attackTime, Zero, TenThousand)
    /\ InRange(decayTime, Zero, TenThousand)
    /\ InRange(releaseTime, Zero, TenThousand)
    /\ InRange(sustainLevel, Zero, One)
    /\ InRange(gain, Zero, One)
    /\ InRange(attackShape, R(1, 10), R(10, 1))
    /\ InRange(releaseShape, R(1, 10), R(10, 1))
    /\ lastOp = "attackshape" =>
           IF Lt(lastArg, Zero)
           THEN InRange(attackShape, R(1, 10), One)
           ELSE InRange(attackShape, One, R(10, 1))
    /\ lastOp = "releaseshape" =>
           IF Lt(lastArg, Zero)
           THEN InRange(releaseShape, R(1, 10), One)
           ELSE InRange(releaseShape, One, R(10, 1))

\* an attack time above the range and a shape below it have been clamped
C9_BothEndsClamped ==
    /\ lastOp = "attackshape"
    /\ lastArg = R(-2, 1)
    /\ attackShape = R(1, 10)
    /\ attackTime = TenThousand

\* C10 as stated: construction leaves attack 0.01 ms, decay 100 ms, sustain
\* 0.7, release 200 ms, both shape exponents 1.0, gain 1.0, Idle at 0.
C10_DocumentedDefaults ==
    lastOp = "new" =>
        /\ attackTime = R(1, 100)
        /\ decayTime = R(100, 1)
        /\ sustainLevel = R(7, 10)
        /\ releaseTime = R(200, 1)
        /\ attackShape = One
        /\ releaseShape = One
        /\ gain = One
        /\ phase = "Idle"
        /\ currentEnv = Zero

\* C10 as amended: construction leaves attack 0.01, decay 0.1, release 0.2
\* (in the setters' unit, ms), sustain 0.7, attack shape exponent 2.0,
\* release shape exponent 1.0, gain 1.0, Idle at 0.
C10_ConstructedDefaults ==
    lastOp = "new" =>
        /\ attackTime = R(1, 100)
        /\ decayTime = R(1, 10)
        /\ sustainLevel = R(7, 10)
        /\ releaseTime = R(2, 10)
        /\ attackShape = R(2, 1)
        /\ releaseShape = One
        /\ gain = One
        /\ phase = "Idle"
        /\ phaseFunc = "idlePhase"
        /\ currentEnv = Zero

\* the object has just been constructed
C10_JustConstructed ==
    /\ lastOp = "new"
    /\ nSet = 0
    /\ nTrig = 0
    /\ phase = "Idle"

\* C11: a sample rendered while the phase is Idle leaves currentEnv = 0 and
\* writes 0 whatever the gain; a render step and a stop message both leave
\* the phase Idle, so that the only operation after which Idle has been
\* left is start.
C11_IdleIsSilent ==
    [][/\ (lastOp' = "perform" /\ phase = "Idle") =>
              (currentEnv' = Zero /\ out' = Zero /\ phase' = "Idle")
       /\ (lastOp' = "stop" /\ phase = "Idle") => phase' = "Idle"
       /\ (phase = "Idle" /\ phase' # "Idle") => lastOp' = "start"]_vars

\* an Idle sample rendered with gain 1/2 right after a release that left a
\* non-zero envelope behind
C11_IdleSampleRendered ==
    /\ lastOp = "perform"
    /\ prevPhase = "Idle"
    /\ prevEnv # Zero
    /\ gain = R(1, 2)
    /\ currentEnv = Zero
    /\ out = Zero

\* C12 as stated: a sample rendered while the phase is Sustain sets
\* currentEnv to the sustainLevel of that moment and stays in Sustain, and
\* the only operation after which Sustain has been left is stop.
C12_OnlyStopLeavesSustain ==
    [][/\ (lastOp' = "perform" /\ phase = "Sustain") =>
              (currentEnv' = sustainLevel /\ phase' = "Sustain")
       /\ (phase = "Sustain" /\ phase' # "Sustain") => lastOp' = "stop"]_vars

\* C12: a sample rendered while the phase is Sustain sets currentEnv to the
\* sustainLevel of that moment and stays in Sustain; Sustain is left only by
\* a trigger: stop enters Release, start enters Startup (start from silence)
\* or Attack.
C12_OnlyTriggersLeaveSustain ==
    [][/\ (lastOp' = "perform" /\ phase = "Sustain") =>
              (currentEnv' = sustainLevel /\ phase' = "Sustain")
       /\ (phase = "Sustain" /\ phase' # "Sustain") =>
              \/ lastOp' = "stop" /\ phase' = "Release"
              \/ lastOp' = "start" /\ phase' =
                     (IF startAtCurrentEnv THEN "Attack" ELSE "Startup")]_vars

\* a start that arrived while the engine was holding the sustain level
C12_StartDuringSustain ==
    /\ lastOp = "start"
    /\ prevPhase = "Sustain"
    /\ prevEnv = sustainLevel
    /\ phase \in {"Startup", "Attack"}

\* the value the first sample of the given phase starts from (its value at
\* p = 0): phaseStartEnv for the interpolating phases, 1 for Decay, the
\* sustain level for Sustain, 0 for Idle
StartValueOf(ph, level, startEnv) ==
    CASE ph = "Decay" -> One
      [] ph = "Sustain" -> level
      [] ph = "Idle" -> Zero
      [] OTHER -> startEnv

\* C13: whenever a render step changes the phase (Startup->Attack,
\* Attack->Decay, Decay->Sustain, Release->Idle) of a phase whose budget is
\* at least 1 and whose sample index is below it, the finite value it has
\* just computed, the last sample of the finishing phase, equals the value
\* the next phase starts from.
C13_ContinuousAcrossBoundaries ==
    [][(/\ lastOp' = "perform"
        /\ phase' # phase
        /\ BudgetOf(phase) >= 1
        /\ currentSample < BudgetOf(phase)
        /\ IsFinite(currentEnv'))
       => currentEnv' = StartValueOf(phase', sustainLevel', phaseStartEnv')]_vars

\* C14: right after release f, the stored releaseTime is clamp(f - 3, 0,
\* 10000) when the object starts from silence (startAtCurrentEnv false) and
\* clamp(f, 0, 10000) otherwise, and releasePhaseSamples is the count
\* derived from that stored time, max(1, (int)(releaseTime * sampleratems)).
C14_ReleaseTimeAdjusted ==
    lastOp = "release" =>
        /\ releaseTime =
               clamp(IF ~startAtCurrentEnv
                     THEN Sub(lastArg, R(3, 1))
                     ELSE lastArg,
                     Zero, R(10000, 1))
        /\ releasePhaseSamples =
               max(1, toInt(Mul(releaseTime, sampleratems)))

\* release 20000 on an object that starts from silence: 19997 is clamped,
\* not 10000 reduced by 3
C14_AdjustedBeforeClamping ==
    /\ lastOp = "release"
    /\ ~startAtCurrentEnv
    /\ lastArg = R(20000, 1)
    /\ releaseTime = R(10000, 1)

AutonomousEdges ==
    {<<"Startup", "Attack">>, <<"Attack", "Decay">>,
     <<"Decay", "Sustain">>, <<"Release", "Idle">>}

\* the phase has been running since its trigger with no message in between
Undisturbed ==
    \/ run[1] = "attack" /\ phase = "Attack"
    \/ run[1] = "release" /\ phase = "Release"

\* C15: a render step changes the phase only along Startup->Attack,
\* Attack->Decay, Decay->Sustain, Release->Idle; a render step that stays in
\* a timed phase advances currentSample by exactly one; and a timed phase
\* that runs from its trigger with budget N and no message in between has
\* rendered fewer than N samples while it goes on and exactly N when the
\* render step changes the phase.
C15_BudgetedPhases ==
    [][lastOp' = "perform" =>
          /\ phase' # phase => <<phase, phase'>> \in AutonomousEdges
          /\ (phase \in TimedPhases /\ phase' = phase) =>
                 currentSample' = currentSample + 1
          /\ (Undisturbed /\ phase' = phase) => run'[2] < BudgetOf(phase)
          /\ (Undisturbed /\ phase' # phase) =>
                 run'[2] = BudgetOf(phase)]_vars

\* C16: with render steps taken fairly and finitely many messages, every
\* timed phase ends: from Release the engine reaches Idle unless a start
\* arrives, and from Startup, Attack or Decay it reaches Sustain unless a
\* stop arrives, whatever the time setters and dsp do to the budget of the
\* running phase.  The first conjunct ties the fairness condition to the
\* code: every sample rendered in a timed phase moves the counter as
\* RenderTick says.
C16_TimedPhasesTerminate ==
    /\ [][(lastOp' = "perform" /\ phase \in TimedPhases) => RenderTick]_vars
    /\ (phase = "Release") ~> (phase = "Idle" \/ lastOp = "start")
    /\ (phase \in {"Startup", "Attack", "Decay"}) ~>
           (phase = "Sustain" \/ lastOp = "stop")

\* Idle reached by rendering a release to its end in a run in which time
\* setters have changed the budgets
C16_ReleaseRanOut ==
    /\ lastOp = "perform"
    /\ prevPhase = "Release"
    /\ phase = "Idle"
    /\ nSet >= 1
    /\ run = NoRun

\* the last operation was a start, or a stop that entered Release
TriggerJustTaken ==
    \/ lastOp = "start"
    \/ lastOp = "stop" /\ prevPhase \notin {"Idle", "Release"}

\* C17: the first sample rendered after a start, and after a stop that is
\* not a no-op, leaves currentEnv at the (finite) value it had when the
\* trigger arrived, and the sample written is that value times the gain.
C17_NoJumpAfterTrigger ==
    [][(lastOp' = "perform" /\ TriggerJustTaken /\ IsFinite(currentEnv)) =>
          (currentEnv' = currentEnv /\ out' = Mul(currentEnv, gain))]_vars

SetterOps ==
    {"attack", "decay", "release", "sustain", "attackshape", "releaseshape",
     "g"}

\* C18: no setter (attack, decay, release, sustain, attackshape,
\* releaseshape, g) changes phase, phaseFunc, currentEnv, phaseStartEnv or
\* currentSample; and enter_phase, wherever it is called, sets only phase,
\* phaseFunc (to the function of the new phase) and currentSample (to 0):
\* a trigger, which does nothing but capture phaseStartEnv and call it,
\* leaves currentEnv, the written sample and the parameter store as they
\* are.
C18_SettersLeaveEngineAlone ==
    [][/\ lastOp' \in SetterOps =>
              UNCHANGED <<phase, phaseFunc, currentEnv, phaseStartEnv,
                          currentSample>>
       /\ lastOp' \in {"start", "stop"} => UNCHANGED <<currentEnv, out, store>>
       /\ (phase' # phase \/ lastOp' = "start") =>
              (phaseFunc' = PhaseFuncOf(phase') /\ currentSample' = 0)]_vars

\* a setter message that arrived in the middle of a timed phase
C18_SetterDuringPhase ==
    /\ lastOp \in SetterOps
    /\ phase \in TimedPhases
    /\ prevPhase = phase
    /\ currentSample >= 1
    /\ prevEnv = currentEnv
    /\ currentEnv # Zero

\* C19: whenever a timed phase (Startup, Attack, Decay, Release) with a
\* budget of at least 1 is about to evaluate a sample, 0 <= currentSample <
\* the budget of that phase, so that the progress p lies in [0, 1].
C19_IndexBelowBudget ==
    (phase \in TimedPhases /\ BudgetOf(phase) >= 1) =>
        (0 <= currentSample /\ currentSample < BudgetOf(phase))

\* C20: on an object that starts from silence (startAtCurrentEnv false),
\* every step that ends with the phase Attack ends with phaseStartEnv = 0,
\* and a step that enters Attack is a render step that completes Startup.
C20_AttackStartsFromZero ==
    [][(~startAtCurrentEnv /\ phase' = "Attack") =>
          /\ phaseStartEnv' = Zero
          /\ phase # "Attack" =>
                 (phase = "Startup" /\ lastOp' = "perform")]_vars

\* Attack entered from a Startup that ramped a non-zero envelope down
C20_AttackAfterStartup ==
    /\ ~startAtCurrentEnv
    /\ phase = "Attack"
    /\ lastOp = "perform"
    /\ prevPhase = "Startup"
    /\ IsFinite(prevEnv)
    /\ prevEnv # Zero
    /\ phaseStartEnv = Zero

====
